---- MODULE Spec2Model ----
(***************************************************************************)
(* A model of arm-grab.py: the script that keeps submitting a launch       *)
(* request for an OCI instance, one availability domain after the other,   *)
(* until one request succeeds or the operator presses ctrl-c.              *)
(*                                                                         *)
(* The state is the state of the Python process while main() runs: the     *)
(* module global AD_NAMES, main's locals (instance_list, the iterator of   *)
(* the for loop, i, response, err, msg), the argument of safe_sleep, the   *)
(* console, the file faillog.txt, and how the process ended.  pc is the    *)
(* statement main() is at.  A KeyboardInterrupt is raised at the statement *)
(* the process is executing when ctrl-c arrives, so the model has one      *)
(* interrupt action per group of statements that handle it the same way,   *)
(* enabled at every statement of the group.  A run has at most one ctrl-c. *)
(* A ctrl-c that arrives while the interpreter shuts down, after main() was *)
(* left, raises nothing: the process dies of SIGINT, status 130.            *)
(***************************************************************************)
EXTENDS Integers, Sequences, FiniteSets, TLC

(***************************************************************************)
(* Bounds of the model.                                                    *)
(***************************************************************************)
MaxLocs == 3          \* at most this many availability domains
MaxSubmissions == 4   \* at most this many calls of launch_instance per run
MaxFragment == 2      \* at most this many characters left by a failing write

(***************************************************************************)
(* Inputs from the provider.                                               *)
(***************************************************************************)
ADName(k) == "AD-" \o ToString(k)

Locations == {ADName(k) : k \in 1..MaxLocs}

\* AD_NAMES is the list identity.list_availability_domains returned, name
\* by name, as it came: nothing in the script removes a repeated name.
LocationLists == UNION {[1..n -> Locations] : n \in 0..MaxLocs}

StatusCodes == {409, 500, 503}

Messages == {"Out of host capacity."}

Handles == {"ocid1.instance.x", "ocid1.instance.y"}

Timestamp(k) == "2025-01-01T00:00:0" \o ToString(k)

InitialLogs == {<<>>, <<"earlier run\n">>}

(***************************************************************************)
(* Program constants.                                                      *)
(***************************************************************************)
INSTANCE_NAME == "Armz0"
SHAPE_NAME == "VM.Standard.A1.Flex"
COMPARTMENT_ID == "tenancy"
SUBNET_ID == "subnet"
IMAGE_ID == "image"
SHAPE_CONFIG == [ocpus |-> 4, memory_in_gbs |-> 24]
AVAILABILITY_CONFIG == [recovery_action |-> "RESTORE_INSTANCE"]
INSTANCE_OPTIONS == [are_legacy_imds_endpoints_disabled |-> TRUE]
METADATA == [ssh_authorized_keys |-> "pub_key"]

FastRetryStatus == 500
FastRetryDelay == 4
SlowRetryDelay == 60

Separator == "---"
SuccessMessage == "FINALLY!!!!"
CancelMessage == "\nctrl-c  --  exiting"

None == "none"

VARIABLES
    AD_NAMES,       \* the module global: names of the availability domains
    instance_list,  \* main: the list create_instance_list returned
    pc,             \* the statement main() is at
    cursor,         \* the index the iterator of `for i in instance_list` is at
    i,              \* the loop variable: the candidate being tried
    response,       \* the local that receives launch_instance's result
    err,            \* the ServiceError being handled
    msg,            \* the failure line built by the handler
    duration,       \* the argument of the running safe_sleep
    console,        \* the lines printed so far
    faillog,        \* the content of faillog.txt, line by line
    submitted,      \* history: the candidates passed to launch_instance
    slept,          \* history: the durations of the sleeps started
    interrupt,      \* history: where ctrl-c arrived and after how many calls
    failures,       \* history: the ServiceErrors raised, one per failed call
    log0,           \* history: the content of faillog.txt when the run began
    term,           \* how the run ended
    fault,          \* the exception that left main() unhandled
    exit_code       \* the exit status of the process

vars == <<AD_NAMES, instance_list, pc, cursor, i, response, err, msg, duration,
          console, faillog, submitted, slept, interrupt, failures, log0, term,
          fault, exit_code>>

NoInterrupt == [at |-> None, calls |-> 0]

\* the group of statements a statement belongs to: the try body (lines
\* 140-142) is named after its first statement, and so is the part of the
\* handler that builds and prints the line (lines 146-154)
Region(p) ==
    CASE p \in {"launch", "finally", "sysexit"} -> "launch"
      [] p \in {"echo", "print"} -> "echo"
      [] OTHER -> p

\* the locals i and err while nothing is bound to them
NoCandidate == [availability_domain |-> None]

NoError == [timestamp |-> None, status |-> 0, message |-> None]

(***************************************************************************)
(* create_instance_list: one LaunchInstanceDetails per name, in order.     *)
(***************************************************************************)
LaunchInstanceDetails(ad) ==
    [compartment_id |-> COMPARTMENT_ID,
     availability_domain |-> ad,
     shape |-> SHAPE_NAME,
     shape_config |-> SHAPE_CONFIG,
     display_name |-> INSTANCE_NAME,
     source_details |-> [source_type |-> "image", image_id |-> IMAGE_ID],
     create_vnic_details |-> [subnet_id |-> SUBNET_ID, assign_public_ip |-> TRUE],
     metadata |-> METADATA,
     availability_config |-> AVAILABILITY_CONFIG,
     instance_options |-> INSTANCE_OPTIONS]

\* create_instance_list that inserts each new candidate at the head
create_instance_list_Reversed(names) ==
    [k \in 1..Len(names) |-> LaunchInstanceDetails(names[Len(names) + 1 - k])]

create_instance_list(names) ==
    [k \in 1..Len(names) |-> LaunchInstanceDetails(names[k])]

(***************************************************************************)
(* "---".join([err.timestamp, i.availability_domain, str(err.status),      *)
(*             err.message])                                               *)
(***************************************************************************)
\* JoinMsg with a two-dash separator
JoinMsg_TwoDashes(e, cand) ==
    e.timestamp \o "--" \o cand.availability_domain \o "--"
        \o ToString(e.status) \o "--" \o e.message

JoinMsg(e, cand) ==
    e.timestamp \o Separator \o cand.availability_domain \o Separator
        \o ToString(e.status) \o Separator \o e.message

(***************************************************************************)
(* The duration main passes to safe_sleep after a ServiceError.            *)
(***************************************************************************)
BackoffDelay(status) ==
    IF status = FastRetryStatus THEN FastRetryDelay ELSE SlowRetryDelay

(***************************************************************************)
(* The ways the process ends.                                              *)
(***************************************************************************)
\* ctrl-c while the interpreter shuts down, main() already left: no handler
\* runs and no exception is raised, the process dies of SIGINT
ShutdownInterrupted ==
    /\ interrupt = NoInterrupt
    /\ interrupt' = [at |-> "shutdown", calls |-> Len(submitted)]
    /\ exit_code' = 130

\* sys.exit(0) after a successful launch: SystemExit leaves main() and the
\* interpreter shuts down
ExitAcquired ==
    /\ pc' = "exited"
    /\ term' = "Acquired"
    /\ UNCHANGED fault
    /\ \/ exit_code' = 0 /\ UNCHANGED interrupt
       \/ ShutdownInterrupted

\* print("\nctrl-c  --  exiting"); sys.exit(0)
ExitCancelled ==
    /\ pc' = "exited"
    /\ term' = "Cancelled"
    /\ exit_code' = 0
    /\ console' = Append(console, CancelMessage)
    /\ UNCHANGED fault

\* an exception no handler catches: traceback, the interpreter ends the
\* process.  For KeyboardInterrupt (the action that raises it records the
\* interrupt) by SIGINT, status 130; otherwise with status 1, or 130 when
\* ctrl-c arrives during the shutdown
ExitUnhandled(exc) ==
    /\ pc' = "exited"
    /\ term' = "Crashed"
    /\ fault' = exc
    /\ \/ exc = "KeyboardInterrupt" /\ exit_code' = 130
       \/ exc # "KeyboardInterrupt" /\ exit_code' = 1 /\ UNCHANGED interrupt
       \/ exc # "KeyboardInterrupt" /\ ShutdownInterrupted

Init ==
    /\ AD_NAMES \in LocationLists
    /\ instance_list = <<>>
    /\ pc = "main"
    /\ cursor = 0
    /\ i = NoCandidate
    /\ response = None
    /\ err = NoError
    /\ msg = None
    /\ duration = 0
    /\ console = <<>>
    /\ faillog \in InitialLogs
    /\ log0 = faillog
    /\ failures = <<>>
    /\ submitted = <<>>
    /\ slept = <<>>
    /\ interrupt = NoInterrupt
    /\ term = None
    /\ fault = None
    /\ exit_code = -1

(***************************************************************************)
(* main, line by line.                                                     *)
(***************************************************************************)
\* instance_list = create_instance_list()
CreateInstanceList ==
    /\ pc = "main"
    /\ instance_list' = create_instance_list(AD_NAMES)
    /\ pc' = "while"
    /\ UNCHANGED <<failures, log0>>
    /\ UNCHANGED <<AD_NAMES, cursor, i, response, err, msg, duration, console,
                   faillog, submitted, slept, interrupt, term, fault, exit_code>>

\* while True: a new pass over instance_list starts
WhileTrue ==
    /\ pc = "while"
    /\ cursor' = 1
    /\ pc' = "for"
    /\ UNCHANGED <<failures, log0>>
    /\ UNCHANGED <<AD_NAMES, instance_list, i, response, err, msg, duration,
                   console, faillog, submitted, slept, interrupt, term, fault,
                   exit_code>>

\* ForNext with an iterator that does not move on
ForNext_NoAdvance ==
    /\ pc = "for"
    /\ cursor <= Len(instance_list)
    /\ Len(submitted) < MaxSubmissions
    /\ i' = instance_list[cursor]
    /\ cursor' = cursor
    /\ submitted' = Append(submitted, instance_list[cursor])
    /\ pc' = "launch"
    /\ UNCHANGED <<failures, log0>>
    /\ UNCHANGED <<AD_NAMES, instance_list, response, err, msg, duration,
                   console, faillog, slept, interrupt, term, fault, exit_code>>

\* for i in instance_list: the next candidate; the try block is entered and
\* launch_instance(i) is called
ForNext ==
    /\ pc = "for"
    /\ cursor <= Len(instance_list)
    /\ Len(submitted) < MaxSubmissions
    /\ i' = instance_list[cursor]
    /\ cursor' = cursor + 1
    /\ submitted' = Append(submitted, instance_list[cursor])
    /\ pc' = "launch"
    /\ UNCHANGED <<failures, log0>>
    /\ UNCHANGED <<AD_NAMES, instance_list, response, err, msg, duration,
                   console, faillog, slept, interrupt, term, fault, exit_code>>

\* for i in instance_list: the list is exhausted, back to while True
ForExhausted ==
    /\ pc = "for"
    /\ cursor > Len(instance_list)
    /\ pc' = "while"
    /\ UNCHANGED <<failures, log0>>
    /\ UNCHANGED <<AD_NAMES, instance_list, cursor, i, response, err, msg,
                   duration, console, faillog, submitted, slept, interrupt,
                   term, fault, exit_code>>

\* response = launch_instance(i) returns
LaunchSuccess ==
    /\ pc = "launch"
    /\ \E h \in Handles : response' = h
    /\ pc' = "finally"
    /\ UNCHANGED <<failures, log0>>
    /\ UNCHANGED <<AD_NAMES, instance_list, cursor, i, err, msg, duration,
                   console, faillog, submitted, slept, interrupt, term, fault,
                   exit_code>>

\* print("FINALLY!!!!")
PrintSuccess ==
    /\ pc = "finally"
    /\ console' = Append(console, SuccessMessage)
    /\ pc' = "sysexit"
    /\ UNCHANGED <<failures, log0>>
    /\ UNCHANGED <<AD_NAMES, instance_list, cursor, i, response, err, msg,
                   duration, faillog, submitted, slept, interrupt, term, fault,
                   exit_code>>

\* ExitSuccess without the sys.exit(0): the loop goes on
ExitSuccess_NoExit ==
    /\ pc = "sysexit"
    /\ term' = "Acquired"
    /\ pc' = "for"
    /\ UNCHANGED <<failures, log0>>
    /\ UNCHANGED <<AD_NAMES, instance_list, cursor, i, response, err, msg,
                   duration, console, faillog, submitted, slept, interrupt,
                   fault, exit_code>>

\* sys.exit(0) after the success message
ExitSuccess ==
    /\ pc = "sysexit"
    /\ ExitAcquired
    /\ UNCHANGED <<failures, log0>>
    /\ UNCHANGED <<AD_NAMES, instance_list, cursor, i, response, err, msg,
                   duration, console, faillog, submitted, slept>>

\* launch_instance(i) raises ServiceError: except ServiceError as e; err = e
LaunchServiceError ==
    /\ pc = "launch"
    /\ \E s \in StatusCodes, m \in Messages :
          err' = [timestamp |-> Timestamp(Len(submitted)), status |-> s,
                  message |-> m]
    /\ failures' = Append(failures, err')
    /\ pc' = "echo"
    /\ UNCHANGED log0
    /\ UNCHANGED <<AD_NAMES, instance_list, cursor, i, response, msg, duration,
                   console, faillog, submitted, slept, interrupt, term, fault,
                   exit_code>>

\* ctrl-c inside the try block (lines 140-142): while launch_instance(i)
\* runs, or after it returned, before or after the success message is
\* printed: except KeyboardInterrupt
LaunchInterrupted ==
    /\ pc \in {"launch", "finally", "sysexit"}
    /\ interrupt' = [at |-> Region(pc), calls |-> Len(submitted)]
    /\ ExitCancelled
    /\ UNCHANGED <<failures, log0>>
    /\ UNCHANGED <<AD_NAMES, instance_list, cursor, i, response, err, msg,
                   duration, faillog, submitted, slept>>

\* msg = "---".join([...])
JoinLine ==
    /\ pc = "echo"
    /\ msg' = JoinMsg(err, i)
    /\ pc' = "print"
    /\ UNCHANGED <<failures, log0>>
    /\ UNCHANGED <<AD_NAMES, instance_list, cursor, i, response, err, duration,
                   console, faillog, submitted, slept, interrupt, term, fault,
                   exit_code>>

\* Echo after which the handler goes straight to the backoff
Echo_SkipsRecord ==
    /\ pc = "print"
    /\ console' = Append(console, msg)
    /\ pc' = "backoff"
    /\ UNCHANGED <<failures, log0>>
    /\ UNCHANGED <<AD_NAMES, instance_list, cursor, i, response, err, msg,
                   duration, faillog, submitted, slept, interrupt, term, fault,
                   exit_code>>

\* print(msg)
Echo ==
    /\ pc = "print"
    /\ console' = Append(console, msg)
    /\ pc' = "record"
    /\ UNCHANGED <<failures, log0>>
    /\ UNCHANGED <<AD_NAMES, instance_list, cursor, i, response, err, msg,
                   duration, faillog, submitted, slept, interrupt, term, fault,
                   exit_code>>

\* with open("faillog.txt", "a") as f: f.write(f"{msg}\n")
Record ==
    /\ pc = "record"
    /\ faillog' = Append(faillog, msg \o "\n")
    /\ pc' = "backoff"
    /\ UNCHANGED <<failures, log0>>
    /\ UNCHANGED <<AD_NAMES, instance_list, cursor, i, response, err, msg,
                   duration, console, submitted, slept, interrupt, term, fault,
                   exit_code>>

\* the first n characters of t
Prefix(t, n) == SubSeq(t, 1, n)

\* what a failing open or write leaves of the line in the file: nothing, or
\* its first characters (never the whole line)
Fragments(line) ==
    {Prefix(line, n) :
        n \in 0..(IF MaxFragment < Len(line) THEN MaxFragment ELSE Len(line) - 1)}

\* open or write raises OSError inside the ServiceError handler: no handler
\* of main catches it; a write that fails part-way leaves the beginning of
\* the line in the file
RecordIoError ==
    /\ pc = "record"
    /\ \E part \in Fragments(msg \o "\n") :
          faillog' = IF part = "" THEN faillog ELSE Append(faillog, part)
    /\ ExitUnhandled("OSError")
    /\ UNCHANGED <<failures, log0>>
    /\ UNCHANGED <<AD_NAMES, instance_list, cursor, i, response, err, msg,
                   duration, console, submitted, slept>>

\* if err.status == 500: safe_sleep(4) else: safe_sleep(60)
Backoff ==
    /\ pc = "backoff"
    /\ duration' = BackoffDelay(err.status)
    /\ slept' = Append(slept, BackoffDelay(err.status))
    /\ pc' = "sleep"
    /\ UNCHANGED <<failures, log0>>
    /\ UNCHANGED <<AD_NAMES, instance_list, cursor, i, response, err, msg,
                   console, faillog, submitted, interrupt, term, fault,
                   exit_code>>

\* safe_sleep: sleep(duration) returns; the handler ends (err keeps the
\* ServiceError: only e is unbound), next loop iteration
SleepCompleted ==
    /\ pc = "sleep"
    /\ duration' = 0
    /\ pc' = "for"
    /\ UNCHANGED <<failures, log0>>
    /\ UNCHANGED <<AD_NAMES, instance_list, cursor, i, response, err, msg,
                   console, faillog, submitted, slept, interrupt, term, fault,
                   exit_code>>

\* SleepInterrupted with a handler that swallows the interrupt and returns
SleepInterrupted_Swallowed ==
    /\ pc = "sleep"
    /\ interrupt' = [at |-> "sleep", calls |-> Len(submitted)]
    /\ duration' = 0
    /\ pc' = "for"
    /\ UNCHANGED <<failures, log0>>
    /\ UNCHANGED <<AD_NAMES, instance_list, cursor, i, response, err, msg,
                   console, faillog, submitted, slept, term, fault, exit_code>>

\* safe_sleep: ctrl-c during sleep(duration): except KeyboardInterrupt
SleepInterrupted ==
    /\ pc = "sleep"
    /\ interrupt' = [at |-> "sleep", calls |-> Len(submitted)]
    /\ ExitCancelled
    /\ UNCHANGED <<failures, log0>>
    /\ UNCHANGED <<AD_NAMES, instance_list, cursor, i, response, err, msg,
                   duration, faillog, submitted, slept>>

\* ctrl-c while the ServiceError handler runs (lines 145-161, outside
\* safe_sleep's try): a sibling except clause does not catch it
HandlerInterrupted ==
    /\ pc \in {"echo", "print", "record", "backoff"}
    /\ interrupt' = [at |-> Region(pc), calls |-> Len(submitted)]
    /\ ExitUnhandled("KeyboardInterrupt")
    \* inside the with block the exception unwinds through the file's
    \* __exit__, which closes the file: a line already handed to f.write is
    \* flushed, an interrupt before f.write leaves the log as it was
    /\ faillog' \in IF pc = "record"
                     THEN {faillog, Append(faillog, msg \o "\n")}
                     ELSE {faillog}
    /\ UNCHANGED <<failures, log0>>
    /\ UNCHANGED <<AD_NAMES, instance_list, cursor, i, response, err, msg,
                   duration, console, submitted, slept>>

\* ctrl-c while main is outside the try block (lines 136-138)
LoopInterrupted ==
    /\ pc \in {"main", "while", "for"}
    /\ interrupt' = [at |-> pc, calls |-> Len(submitted)]
    /\ ExitUnhandled("KeyboardInterrupt")
    /\ UNCHANGED <<failures, log0>>
    /\ UNCHANGED <<AD_NAMES, instance_list, cursor, i, response, err, msg,
                   duration, console, faillog, submitted, slept>>

Next ==
    \/ CreateInstanceList
    \/ WhileTrue
    \/ ForNext
    \/ ForExhausted
    \/ LaunchSuccess
    \/ PrintSuccess
    \/ ExitSuccess
    \/ LaunchServiceError
    \/ LaunchInterrupted
    \/ JoinLine
    \/ Echo
    \/ Record
    \/ RecordIoError
    \/ Backoff
    \/ SleepCompleted
    \/ SleepInterrupted
    \/ HandlerInterrupted
    \/ LoopInterrupted

Spec == Init /\ [][Next]_vars

TypeOK ==
    /\ AD_NAMES \in LocationLists
    /\ pc \in {"main", "while", "for", "launch", "finally", "sysexit", "echo",
               "print", "record", "backoff", "sleep", "exited"}
    /\ cursor \in 0..(MaxLocs + 1)
    /\ duration \in {0, FastRetryDelay, SlowRetryDelay}
    /\ term \in {None, "Acquired", "Cancelled", "Crashed"}
    /\ fault \in {None, "KeyboardInterrupt", "OSError"}
    /\ exit_code \in {-1, 0, 1, 130}
    /\ Len(submitted) <= MaxSubmissions

(***************************************************************************)
(* Properties.                                                             *)
(***************************************************************************)
\* C1: the delay chosen after a failed submission is 20 seconds when the
\* status code is in [500,599] and 60 seconds for every other status code.
C1_DelayByStatusClass ==
    pc = "sleep" =>
        duration = IF err.status \in 500..599 THEN 20 ELSE 60

\* C2: a failure to open or write the failure log never halts the loop: the
\* run never ends with the OSError of the log write.
C2_LogWriteFailureNeverHalts ==
    ~(pc = "exited" /\ fault = "OSError")

\* C3: an interrupt, wherever it arrives, leads to a clean exit: the run is
\* Cancelled, no exception is left unhandled, and no submission was made
\* after the interrupt.
C3_InterruptAlwaysCleanExit ==
    interrupt.at # None =>
        /\ term = "Cancelled"
        /\ fault = None
        /\ Len(submitted) = interrupt.calls

\* C4: an interrupt delivered during the backoff sleep ends the run as
\* Cancelled in that same step, with no further submission and no fault.
C4_SleepInterruptCancels ==
    interrupt.at = "sleep" =>
        /\ pc = "exited"
        /\ term = "Cancelled"
        /\ fault = None
        /\ exit_code = 0
        /\ Len(submitted) = interrupt.calls

C4_Witness ==
    /\ interrupt.at = "sleep"
    /\ term = "Cancelled"
    /\ Len(submitted) >= 1
    /\ Len(submitted) < MaxSubmissions

\* C5: with no eligible location, building the candidate list fails with
\* ConfigurationError and the loop is never entered.
C5_EmptyListConfigurationError ==
    (AD_NAMES = <<>> /\ interrupt.at = None) =>
        \/ pc = "main"
        \/ pc = "exited" /\ fault = "ConfigurationError"

\* C6: the run stops only by success or by operator cancellation: without an
\* interrupt, a run that has ended has ended Acquired, whatever failures
\* came before.
C6_StopsOnlyBySuccessOrCancel ==
    (pc = "exited" /\ interrupt.at = None) => term = "Acquired"

\* C7: the k-th submission (from 0) targets the candidate at index k mod n,
\* whatever the outcomes of the earlier submissions.
C7_RoundRobinOrder ==
    \A k \in 1..Len(submitted) :
        /\ Len(instance_list) > 0
        /\ submitted[k] = instance_list[((k - 1) % Len(instance_list)) + 1]

C7_Witness ==
    /\ Len(instance_list) >= 2
    /\ Len(submitted) > Len(instance_list)
    /\ \E a, b \in DOMAIN faillog : faillog[a] # faillog[b]

\* C8: with more than one candidate, no two consecutive submissions target
\* the same location, the wrap from the last to the first included.
C8_NoConsecutiveSameLocation ==
    Len(instance_list) > 1 =>
        \A k \in 1..(Len(submitted) - 1) :
            submitted[k].availability_domain
                # submitted[k + 1].availability_domain

\* C9: once the run is Acquired or Cancelled, no step makes a submission.
C9_NoSubmissionAfterTerminal ==
    [][(term \in {"Acquired", "Cancelled"}) => (submitted' = submitted)]_vars

C9_Witness ==
    /\ term = "Acquired"
    /\ Len(submitted) >= 2
    /\ Len(submitted) < MaxSubmissions
    /\ cursor <= Len(instance_list)

\* C10 as stated: on success the handle the submission returned is emitted
\* (the process's outputs are the console and the failure log).
C10_HandleEmitted ==
    term = "Acquired" =>
        \/ \E k \in DOMAIN console : console[k] = response
        \/ \E k \in DOMAIN faillog : faillog[k] = response

(***************************************************************************)
(* The failure log against the history of failed submissions.              *)
(***************************************************************************)
\* the line of the k-th failed submission (every failed call is followed by
\* no later call unless it failed, so the k-th failure is the k-th call)
FailureLine(k) == JoinMsg(failures[k], submitted[k]) \o "\n"

FailureLines(n) == [k \in 1..n |-> FailureLine(k)]

\* C11 as stated: once the handler is past the write (or the run is over),
\* the log is its content at the start of the run followed by one line per
\* failed submission so far, in submission order.
C11_OneLinePerFailedSubmission ==
    pc \notin {"echo", "print", "record"} =>
        faillog = log0 \o FailureLines(Len(failures))

(***************************************************************************)
(* create_instance_list on every list of names.                            *)
(***************************************************************************)
InitBuild ==
    /\ AD_NAMES \in LocationLists
    /\ instance_list = <<>>
    /\ pc = "main"
    /\ cursor = 0
    /\ i = NoCandidate
    /\ response = None
    /\ err = NoError
    /\ msg = None
    /\ duration = 0
    /\ console = <<>>
    /\ faillog \in InitialLogs
    /\ log0 = faillog
    /\ failures = <<>>
    /\ submitted = <<>>
    /\ slept = <<>>
    /\ interrupt = NoInterrupt
    /\ term = None
    /\ fault = None
    /\ exit_code = -1

NextBuild == CreateInstanceList

SpecBuild == InitBuild /\ [][NextBuild]_vars

\* the fields every candidate shares: the module constants
Template ==
    [compartment_id |-> COMPARTMENT_ID,
     shape |-> SHAPE_NAME,
     shape_config |-> SHAPE_CONFIG,
     display_name |-> INSTANCE_NAME,
     source_details |-> [source_type |-> "image", image_id |-> IMAGE_ID],
     create_vnic_details |-> [subnet_id |-> SUBNET_ID, assign_public_ip |-> TRUE],
     metadata |-> METADATA,
     availability_config |-> AVAILABILITY_CONFIG,
     instance_options |-> INSTANCE_OPTIONS]

\* C12: the list built from a non-empty list of locations has the same
\* length, its k-th candidate carries the k-th location, and every candidate
\* equals the template in every field other than the location.
C12_BuilderKeepsLengthOrderTemplate ==
    (pc = "while" /\ AD_NAMES # <<>>) =>
        /\ Len(instance_list) = Len(AD_NAMES)
        /\ \A k \in 1..Len(AD_NAMES) :
              /\ instance_list[k].availability_domain = AD_NAMES[k]
              /\ DOMAIN instance_list[k]
                    = DOMAIN Template \cup {"availability_domain"}
              /\ \A f \in DOMAIN Template : instance_list[k][f] = Template[f]

C12_Witness ==
    /\ pc = "while"
    /\ Len(AD_NAMES) = 3
    /\ Len(instance_list) = 3
    /\ AD_NAMES[1] = AD_NAMES[3]
    /\ AD_NAMES[1] # AD_NAMES[2]

(***************************************************************************)
(* The log line of one failure, over fields of arbitrary text.             *)
(***************************************************************************)
MaxFieldLen == 3      \* at most this many characters in a text field

Alphabet == {"a", "-"}

RECURSIVE TextsOfLen(_)
TextsOfLen(n) ==
    IF n = 0 THEN {""}
    ELSE {t \o c : t \in TextsOfLen(n - 1), c \in Alphabet}

Texts == UNION {TextsOfLen(n) : n \in 0..MaxFieldLen}

\* the process at the first ServiceError of a run over one location
InitFmt ==
    /\ \E ad \in Texts : AD_NAMES = <<ad>>
    /\ instance_list = create_instance_list(AD_NAMES)
    /\ pc = "echo"
    /\ cursor = 2
    /\ i = instance_list[1]
    /\ response = None
    /\ \E t \in Texts, s \in StatusCodes, m \in Texts :
          err = [timestamp |-> t, status |-> s, message |-> m]
    /\ msg = None
    /\ duration = 0
    /\ console = <<>>
    /\ faillog = <<>>
    /\ log0 = faillog
    /\ failures = <<err>>
    /\ submitted = <<i>>
    /\ slept = <<>>
    /\ interrupt = NoInterrupt
    /\ term = None
    /\ fault = None
    /\ exit_code = -1

NextFmt ==
    \/ JoinLine
    \/ Echo
    \/ Record

SpecFmt == InitFmt /\ [][NextFmt]_vars

\* decimal text of a natural number, digit by digit
Digit(d) == SubSeq("0123456789", d + 1, d + 1)

RECURSIVE Decimal(_)
Decimal(n) ==
    IF n < 10 THEN Digit(n) ELSE Decimal(n \div 10) \o Digit(n % 10)

RECURSIVE ParseDecimal(_)
ParseDecimal(t) ==
    IF Len(t) = 0 THEN 0
    ELSE 10 * ParseDecimal(SubSeq(t, 1, Len(t) - 1))
            + (CHOOSE d \in 0..9 : Digit(d) = SubSeq(t, Len(t), Len(t)))

Contains(t, sep) ==
    \E k \in 1..(Len(t) - Len(sep) + 1) : SubSeq(t, k, k + Len(sep) - 1) = sep

EndsWith(t, c) == Len(t) > 0 /\ SubSeq(t, Len(t), Len(t)) = c

\* the line without its final newline
Chomp(line) == SubSeq(line, 1, Len(line) - 1)

\* t.split(sep): the pieces between the occurrences of sep found from the
\* left, each search starting after the previous occurrence
RECURSIVE Split(_, _)
Split(t, sep) ==
    IF Contains(t, sep)
    THEN LET k == CHOOSE a \in 1..Len(t) :
                    /\ SubSeq(t, a, a + Len(sep) - 1) = sep
                    /\ \A b \in 1..(a - 1) : SubSeq(t, b, b + Len(sep) - 1) # sep
         IN  <<SubSeq(t, 1, k - 1)>> \o Split(SubSeq(t, k + Len(sep), Len(t)), sep)
    ELSE <<t>>

LoggedFields ==
    <<err.timestamp, i.availability_domain, Decimal(err.status), err.message>>

LastLine == faillog[Len(faillog)]

\* C13 as stated: the line is timestamp, location, decimal status and
\* message joined by "---" and ended by one newline, and splitting it on
\* "---" gives back the four fields whenever no field contains "---".
C13_RoundTripUnlessFieldHasSeparator ==
    pc = "backoff" =>
        /\ LastLine = LoggedFields[1] \o "---" \o LoggedFields[2] \o "---"
                        \o LoggedFields[3] \o "---" \o LoggedFields[4] \o "\n"
        /\ (\A k \in 1..4 : ~Contains(LoggedFields[k], "---"))
              => /\ Split(Chomp(LastLine), "---") = LoggedFields
                 /\ ParseDecimal(Split(Chomp(LastLine), "---")[3]) = err.status

\* C13 amended: the same, whenever no field contains "---" and neither the
\* timestamp nor the location ends with "-".
C13_RoundTripUnlessSeparatorOrTrailingDash ==
    pc = "backoff" =>
        /\ LastLine = LoggedFields[1] \o "---" \o LoggedFields[2] \o "---"
                        \o LoggedFields[3] \o "---" \o LoggedFields[4] \o "\n"
        /\ ( /\ \A k \in 1..4 : ~Contains(LoggedFields[k], "---")
             /\ ~EndsWith(LoggedFields[1], "-")
             /\ ~EndsWith(LoggedFields[2], "-") )
              => /\ Split(Chomp(LastLine), "---") = LoggedFields
                 /\ ParseDecimal(Split(Chomp(LastLine), "---")[3]) = err.status

C13_Witness ==
    /\ pc = "backoff"
    /\ \A k \in 1..4 : ~Contains(LoggedFields[k], "---")
    /\ err.timestamp = "-a"
    /\ i.availability_domain = "a-a"
    /\ err.message = "--"
    /\ Split(Chomp(LastLine), "---") = LoggedFields

(***************************************************************************)
(* How runs end, and the end-to-end scenarios.                             *)
(***************************************************************************)
\* C14: a run that ends by a successful submission, or by an interrupt
\* during a submission or during a delay, ends with exit code 0.
C14_SuccessAndCancelExitZero ==
    (term = "Acquired" \/ interrupt.at \in {"launch", "sleep"}) =>
        /\ pc = "exited"
        /\ exit_code = 0

\* C15: scenario A.  Three locations, no interrupt, status 500 on the first
\* two submissions and success on the third: three submissions, one per
\* location in order, two log lines, a 20-second backoff after each
\* failure, Acquired with the handle of the third call.
C15_ScenarioA ==
    ( /\ Len(AD_NAMES) = 3
      /\ interrupt.at = None
      /\ pc = "exited"
      /\ term = "Acquired"
      /\ Len(failures) = 2
      /\ failures[1].status = 500
      /\ failures[2].status = 500 )
    => /\ submitted = instance_list
       /\ faillog = log0 \o FailureLines(2)
       /\ slept = <<20, 20>>
       /\ response \in Handles

\* C16: scenario B.  One location and every submission failing with status
\* 409: every submission goes to that location, consecutive submissions are
\* separated by one 60-second backoff, and the run stops only by an
\* interrupt, which ends it Cancelled.
C16_ScenarioB ==
    ( /\ Len(AD_NAMES) = 1
      /\ Len(failures) >= 1
      /\ \A k \in DOMAIN failures : failures[k].status = 409
      /\ response = None
      /\ fault # "OSError" )
    => /\ \A k \in DOMAIN submitted : submitted[k] = instance_list[1]
       /\ \A k \in DOMAIN slept : slept[k] = 60
       /\ Len(slept) >= Len(submitted) - 1
       /\ pc = "exited" => (interrupt.at # None /\ term = "Cancelled")

\* the failure lines echoed so far: the console without the closing messages
IsFailureLine(line) == line \notin {SuccessMessage, CancelMessage}

Echoes == SelectSeq(console, IsFailureLine)

Appended == SubSeq(faillog, Len(log0) + 1, Len(faillog))

\* C17: each failed submission is echoed, then appended to the log, then
\* followed by one backoff delay, and the next submission is made only
\* after that delay has completed: the counts of submissions, echoes,
\* appends and delays never get out of step, every line whose write
\* completed is the echoed one (a write that failed left at most the
\* beginning of the echoed line), and a submission in flight has all earlier
\* ones echoed, logged and slept out.
C17_EchoThenLogThenDelayThenNext ==
    /\ Len(submitted) - 1 <= Len(slept)
    /\ Len(slept) <= Len(Appended)
    /\ Len(Appended) <= Len(Echoes)
    /\ Len(Echoes) <= Len(submitted)
    /\ \A k \in DOMAIN Appended :
          IF k = Len(Echoes) /\ fault = "OSError"
          THEN Appended[k] \in Fragments(Echoes[k] \o "\n")
          ELSE Appended[k] = Echoes[k] \o "\n"
    /\ \A k \in DOMAIN slept : slept[k] = BackoffDelay(failures[k].status)
    /\ pc = "launch" =>
          /\ Len(slept) = Len(submitted) - 1
          /\ Len(Appended) = Len(submitted) - 1
          /\ Len(Echoes) = Len(submitted) - 1
          /\ duration = 0

C17_Witness ==
    /\ pc = "launch"
    /\ Len(submitted) = 3
    /\ Len(slept) = 2
    /\ slept[1] # slept[2]
    /\ Len(Appended) = 2

(***************************************************************************)
(* Progress.  The interpreter runs the next statement of main, the call of *)
(* launch_instance returns or raises, and sleep returns after its          *)
(* duration; nothing obliges ctrl-c to arrive or a log write to fail.      *)
(***************************************************************************)
FairSpec ==
    /\ Init
    /\ [][Next]_vars
    /\ WF_vars(CreateInstanceList)
    /\ WF_vars(WhileTrue)
    /\ WF_vars(ForNext)
    /\ WF_vars(ForExhausted)
    /\ WF_vars(LaunchSuccess \/ LaunchServiceError)
    /\ WF_vars(PrintSuccess)
    /\ WF_vars(ExitSuccess)
    /\ WF_vars(JoinLine)
    /\ WF_vars(Echo)
    /\ WF_vars(Record)
    /\ WF_vars(Backoff)
    /\ WF_vars(SleepCompleted)

\* C18: with a non-empty candidate list, no interrupt and every delay
\* completing, the run keeps submitting, candidate after candidate, for as
\* long as submissions fail: it goes on until a submission succeeds (or, in
\* the model, until MaxSubmissions submissions are made).
C18_KeepsSubmittingUntilAcquired ==
    (AD_NAMES # <<>>) =>
        <>( \/ term = "Acquired"
            \/ interrupt.at # None
            \/ Len(submitted) = MaxSubmissions )
====
